---- MODULE Spec2Model ----
(***************************************************************************)
(* Model of module_interchangeability_validator.py: the symbol extractor,  *)
(* structural comparator and scorer (ModuleInterchangeabilityValidator),   *)
(* the differential runner with its alarm-bounded executor                 *)
(* (DifferentialTester), and the command line entry point main().          *)
(*                                                                         *)
(* Specifications:                                                         *)
(*   SpecCompare - the comparator and the scorer as pure functions of a    *)
(*                 pair of fingerprints drawn from a bounded set;          *)
(*   SpecClasses, SpecSignatures - the comparator on two declarations of   *)
(*                 one class, of one function;                             *)
(*   SpecExtract - analyze_file_structure on the syntax tree of a file     *)
(*                 drawn from a bounded set;                               *)
(*   SpecResults - compare_results on a drawn pair of results;             *)
(*   Spec        - one run of main(): existence checks, validate(), the    *)
(*                 differential run, the verdict and the exit code.        *)
(*   FairSpec    - Spec with the fairness the single-threaded interpreter  *)
(*                 and the OS timer give (used for termination).           *)
(***************************************************************************)
EXTENDS Integers, Sequences, FiniteSets, TLC

\* Python's None (also used for "no fingerprint", "no error", "no name").
None == "None"

(***************************************************************************)
(* Bounds of the model                                                     *)
(***************************************************************************)
\* largest default count a modelled signature declares
MaxDefaults == 1
\* largest number of positional parameters of a function run differentially
MaxArity == 1

(***************************************************************************)
(* Fingerprints (ModuleAnalysis)                                           *)
(***************************************************************************)
\* Names a modelled file may declare, in the order the file declares them
\* (dicts keep insertion order, so key iteration follows this order).
FuncNames == <<"f", "g">>
ClassNames == <<"K">>
VarNames == <<"x">>
NameOrder == FuncNames \o ClassNames \o VarNames

Range(s) == {s[i] : i \in DOMAIN s}

\* for name in d: the keys of a dict, in insertion order
Keys(d) == SelectSeq(NameOrder, LAMBDA n : n \in DOMAIN d)

\* positional parameter lists of the modelled signatures: a, b, ...
ParamNames == <<"a", "b", "c", "d", "e">>
ArgLists == {SubSeq(ParamNames, 1, n) : n \in 0..MaxArity}

\* func_info (the compared and the descriptive fields); a declaration has
\* at most as many positional defaults as positional parameters
FunctionSigs ==
    {sig \in [args : ArgLists, defaults : 0..MaxDefaults, varargs : {None},
              kwonlyargs : {<<>>}, kwargs : {None}, returns : {None},
              docstring : {None}, decorators : {<<>>}, is_async : {FALSE}] :
        sig.defaults <= Len(sig.args)}

\* class_info
ClassSigs ==
    {[bases |-> <<>>, methods |-> [m \in {"run"} |-> [args |-> <<"self">>]]],
     [bases |-> <<"Base">>, methods |-> [m \in {"run"} |-> [args |-> <<"self">>]]]}

\* variables[name]['value']: the unparsed text of the assigned expression
VarValues == {"1", "2"}

\* the import sections of the modelled files: no import at all, or
\* "import os" together with "from os import path"
ImportSections ==
    {[direct_imports |-> {}, from_imports |-> {}],
     [direct_imports |-> {"os"}, from_imports |-> {"os.path"}]}

\* all maps from a subset of the names in order to the values in vals
Maps(order, vals) == UNION {[S -> vals] : S \in SUBSET Range(order)}

Fingerprints ==
    [functions : Maps(FuncNames, FunctionSigs),
     classes : Maps(ClassNames, ClassSigs),
     variables : Maps(VarNames, [value : VarValues]),
     imports : ImportSections]

(***************************************************************************)
(* Structural comparator                                                   *)
(***************************************************************************)
\* one difference string "<Label>: <orig> -> <test>"
Diff(label, o, t) == <<label, o, t>>

\* faulty variant: the default count of the original is compared with the
\* candidate's parameter list (wrong key), which never equals it
signature_diff_wrong_key(orig_func, test_func) ==
    (IF orig_func.args # test_func.args
        THEN <<Diff("Arguments", orig_func.args, test_func.args)>> ELSE <<>>)
    \o <<Diff("Defaults", orig_func.defaults, test_func.args)>>

\* the difference strings of one common function, lines 253-277
signature_diff(orig_func, test_func) ==
    (IF orig_func.args # test_func.args
        THEN <<Diff("Arguments", orig_func.args, test_func.args)>> ELSE <<>>)
    \o (IF orig_func.defaults # test_func.defaults
        THEN <<Diff("Defaults", orig_func.defaults, test_func.defaults)>> ELSE <<>>)
    \o (IF orig_func.varargs # test_func.varargs
        THEN <<Diff("*args", orig_func.varargs, test_func.varargs)>> ELSE <<>>)
    \o (IF orig_func.kwargs # test_func.kwargs
        THEN <<Diff("**kwargs", orig_func.kwargs, test_func.kwargs)>> ELSE <<>>)
    \o (IF orig_func.returns # test_func.returns
        THEN <<Diff("Return", orig_func.returns, test_func.returns)>> ELSE <<>>)
    \o (IF orig_func.is_async # test_func.is_async
        THEN <<Diff("Async", orig_func.is_async, test_func.is_async)>> ELSE <<>>)

\* the common functions whose signature_diff is not empty
IncompatibleFunctions(orig_funcs, test_funcs) ==
    SelectSeq(Keys(orig_funcs),
              LAMBDA n : n \in DOMAIN test_funcs
                         /\ signature_diff(orig_funcs[n], test_funcs[n]) # <<>>)

\* faulty variant: the missing loop tests membership in the original itself
MissingNamesSelf(orig, test) ==
    SelectSeq(Keys(orig), LAMBDA n : n \notin DOMAIN orig)

\* for name in orig: if name not in test: missing.append(name)
MissingNames(orig, test) ==
    SelectSeq(Keys(orig), LAMBDA n : n \notin DOMAIN test)

\* faulty variant: the extra loop appends every name of the candidate
ExtraNamesAll(orig, test) ==
    Keys(test)

\* for name in test: if name not in orig: extra.append(name)
ExtraNames(orig, test) ==
    SelectSeq(Keys(test), LAMBDA n : n \notin DOMAIN orig)

analyze_signatures_compatibility(original_analysis, test_analysis) ==
    LET orig_funcs == original_analysis.functions
        test_funcs == test_analysis.functions
        incompatible == IncompatibleFunctions(orig_funcs, test_funcs)
    IN [compatible_functions |->
            SelectSeq(Keys(orig_funcs),
                      LAMBDA n : n \in DOMAIN test_funcs
                                 /\ n \notin Range(incompatible)),
        incompatible_functions |-> incompatible,
        missing_functions |-> MissingNames(orig_funcs, test_funcs),
        extra_functions |-> ExtraNames(orig_funcs, test_funcs),
        signature_differences |->
            [n \in Range(incompatible) |->
                signature_diff(orig_funcs[n], test_funcs[n])]]

\* faulty variant: methods that only one of the classes has are not reported
class_diff_common_only(orig_class, test_class) ==
    LET common_methods == DOMAIN orig_class.methods \cap DOMAIN test_class.methods
    IN (IF orig_class.bases # test_class.bases
           THEN {Diff("Bases", orig_class.bases, test_class.bases)} ELSE {})
       \cup {Diff(m, orig_class.methods[m].args, test_class.methods[m].args) :
                m \in {k \in common_methods :
                        orig_class.methods[k].args # test_class.methods[k].args}}

\* the difference strings of one common class, lines 319-344
class_diff(orig_class, test_class) ==
    LET orig_methods == DOMAIN orig_class.methods
        test_methods == DOMAIN test_class.methods
        missing_methods == orig_methods \ test_methods
        extra_methods == test_methods \ orig_methods
        common_methods == orig_methods \cap test_methods
    IN (IF orig_class.bases # test_class.bases
           THEN {Diff("Bases", orig_class.bases, test_class.bases)} ELSE {})
       \cup (IF missing_methods # {}
           THEN {Diff("Missing methods", missing_methods, {})} ELSE {})
       \cup (IF extra_methods # {}
           THEN {Diff("Extra methods", {}, extra_methods)} ELSE {})
       \cup {Diff(m, orig_class.methods[m].args, test_class.methods[m].args) :
                m \in {k \in common_methods :
                        orig_class.methods[k].args # test_class.methods[k].args}}

analyze_classes_compatibility(original_analysis, test_analysis) ==
    LET orig_classes == original_analysis.classes
        test_classes == test_analysis.classes
        incompatible ==
            SelectSeq(Keys(orig_classes),
                      LAMBDA n : n \in DOMAIN test_classes
                                 /\ class_diff(orig_classes[n], test_classes[n]) # {})
    IN [compatible_classes |->
            SelectSeq(Keys(orig_classes),
                      LAMBDA n : n \in DOMAIN test_classes
                                 /\ class_diff(orig_classes[n], test_classes[n]) = {}),
        incompatible_classes |-> incompatible,
        missing_classes |-> MissingNames(orig_classes, test_classes),
        extra_classes |-> ExtraNames(orig_classes, test_classes),
        class_differences |->
            [n \in Range(incompatible) |->
                class_diff(orig_classes[n], test_classes[n])]]

analyze_variables_compatibility(original_analysis, test_analysis) ==
    LET orig_vars == original_analysis.variables
        test_vars == test_analysis.variables
        different ==
            SelectSeq(Keys(orig_vars),
                      LAMBDA n : n \in DOMAIN test_vars
                                 /\ orig_vars[n].value # test_vars[n].value)
    IN [compatible_variables |->
            SelectSeq(Keys(orig_vars),
                      LAMBDA n : n \in DOMAIN test_vars
                                 /\ orig_vars[n].value = test_vars[n].value),
        missing_variables |-> MissingNames(orig_vars, test_vars),
        extra_variables |-> ExtraNames(orig_vars, test_vars),
        different_variables |->
            [i \in DOMAIN different |->
                [name |-> different[i],
                 original |-> orig_vars[different[i]].value,
                 test |-> test_vars[different[i]].value]]]

analyze_imports_compatibility(original_analysis, test_analysis) ==
    LET orig_imports == original_analysis.imports
        test_imports == test_analysis.imports
    IN [missing_direct_imports |->
            orig_imports.direct_imports \ test_imports.direct_imports,
        extra_direct_imports |->
            test_imports.direct_imports \ orig_imports.direct_imports,
        missing_from_imports |->
            orig_imports.from_imports \ test_imports.from_imports,
        extra_from_imports |->
            test_imports.from_imports \ orig_imports.from_imports,
        compatible_imports |->
            Cardinality(orig_imports.direct_imports \cap test_imports.direct_imports)
            + Cardinality(orig_imports.from_imports \cap test_imports.from_imports)]

(***************************************************************************)
(* Compatibility scorer.  A score is the exact rational num/den (den > 0)  *)
(* of the float the code computes, in points from 0 to 100.                *)
(***************************************************************************)
total_elements(original_analysis) ==
    Cardinality(DOMAIN original_analysis.functions)
    + Cardinality(DOMAIN original_analysis.classes)
    + Cardinality(DOMAIN original_analysis.variables)

compatible_elements(original_analysis, test_analysis) ==
    Len(analyze_signatures_compatibility(original_analysis, test_analysis)
            .compatible_functions)
    + Len(analyze_classes_compatibility(original_analysis, test_analysis)
            .compatible_classes)
    + Len(analyze_variables_compatibility(original_analysis, test_analysis)
            .compatible_variables)

\* faulty variant: an empty original scores 0 instead of 100
calculate_compatibility_score_empty0(original_analysis, test_analysis) ==
    IF total_elements(original_analysis) = 0
       THEN [num |-> 0, den |-> 1]
       ELSE [num |-> compatible_elements(original_analysis, test_analysis) * 100,
             den |-> total_elements(original_analysis)]

calculate_compatibility_score(original_analysis, test_analysis) ==
    IF total_elements(original_analysis) = 0
       THEN [num |-> 100, den |-> 1]
       ELSE [num |-> compatible_elements(original_analysis, test_analysis) * 100,
             den |-> total_elements(original_analysis)]

(***************************************************************************)
(* Verdict combiner (validate, lines 462-476)                              *)
(***************************************************************************)
\* score >= 85
Threshold == 85
\* (score * 0.7) + (diff_score * 0.3), in tenths
StaticWeight == 7
DifferentialWeight == 3
WeightScale == 10

GE(score, points) == score.num >= points * score.den

Passed(test_results) ==
    Cardinality({i \in DOMAIN test_results : test_results[i].passed})

\* faulty variant: the blend is taken whenever differential mode is on, an empty
\* run counting as a pass rate of 0
final_score_empty_as_0(score, run_diff, test_results) ==
    IF run_diff
       THEN LET total_diff_tests == IF Len(test_results) = 0 THEN 1
                                    ELSE Len(test_results)
                passed_diff_tests == Passed(test_results)
            IN [num |-> score.num * StaticWeight * total_diff_tests
                        + passed_diff_tests * 100 * DifferentialWeight * score.den,
                den |-> WeightScale * score.den * total_diff_tests]
       ELSE score

\* the score the verdict is taken on: lines 467-476
final_score(score, run_diff, test_results) ==
    IF run_diff /\ test_results # <<>>
       THEN LET total_diff_tests == Len(test_results)
                passed_diff_tests == Passed(test_results)
            IN \* total_diff_tests > 0 holds for a non-empty list
               [num |-> score.num * StaticWeight * total_diff_tests
                        + passed_diff_tests * 100 * DifferentialWeight * score.den,
                den |-> WeightScale * score.den * total_diff_tests]
       ELSE score

(***************************************************************************)
(* Differential tester: pure parts                                         *)
(***************************************************************************)
\* run_differential_tests(max_functions_per_module = 10)
max_functions_per_module == 10

Min(a, b) == IF a <= b THEN a ELSE b

\* s[:n]
Prefix(s, n) == SubSeq(s, 1, Min(n, Len(s)))

\* the pool of create_test_inputs, values written as their repr
basic_values ==
    << <<>>, <<"1", "2", "3">>, <<"'hello'", "'world'">>, <<"{'key': 'value'}">> >>

NoKwargs == <<>>

create_test_inputs(func_signature) ==
    LET args == func_signature.args
    IN IF Len(args) = 0
          THEN << [args |-> <<>>, kwargs |-> NoKwargs] >>
       ELSE IF Len(args) <= 3
          THEN LET pool == Prefix(basic_values, Len(args) + 1)
               IN [i \in DOMAIN pool |->
                      [args |-> Prefix(pool[i], Len(args)), kwargs |-> NoKwargs]]
       ELSE << [args |-> [i \in 1..Len(args) |-> None], kwargs |-> NoKwargs] >>

\* values a modelled callee returns, written as their repr
RetVals == {"1", "2"}

\* largest nesting depth of a compared result
MaxDepth == 2

\* A result is a record: its type name, the repr of a scalar, the keys of
\* a mapping and the elements of a sequence (or the values of a mapping, in
\* the order of its keys).  id tells two objects with the same repr apart.
Scalar(type, repr, id) ==
    [type |-> type, repr |-> repr, keys |-> <<>>, items |-> <<>>, id |-> id]

\* 1, 2, 1.0, two float('nan') objects, 'a', ' a', None
Scalars ==
    {Scalar("int", "1", 0), Scalar("int", "2", 0), Scalar("float", "1.0", 0),
     Scalar("float", "nan", 0), Scalar("float", "nan", 1),
     Scalar("str", "a", 0), Scalar("str", " a", 0),
     Scalar("NoneType", "None", 0)}

\* [], [v], (), (v,), {}, {'k': v} for the values v of a set
ContainersOf(inner) ==
    {[type |-> t, repr |-> "", keys |-> <<>>, items |-> items, id |-> 0] :
        t \in {"list", "tuple"}, items \in {<<>>} \cup {<<v>> : v \in inner}}
    \cup {[type |-> "dict", repr |-> "", keys |-> <<>>, items |-> <<>>, id |-> 0]}
    \cup {[type |-> "dict", repr |-> "", keys |-> <<"k">>, items |-> <<v>>, id |-> 0] :
            v \in inner}

\* the results nested to depth d at most
RECURSIVE ValuesUpTo(_)
ValuesUpTo(d) ==
    IF d = 0 THEN Scalars
    ELSE Scalars \cup ContainersOf(ValuesUpTo(d - 1))

Values == ValuesUpTo(MaxDepth)

\* the result whose repr the run of a callee is recorded with
ValueOf(r) ==
    IF r = None THEN Scalar("NoneType", "None", 0) ELSE Scalar("int", r, 0)

\* type(result)
ValueType(v) == v.type

IsNaN(v) == v.type = "float" /\ v.repr = "nan"

\* the number a numeric repr denotes
NumberOf(v) == IF v.repr = "2" THEN 2 ELSE 1

\* d[k]
dict_get(d, k) == d.items[CHOOSE i \in DOMAIN d.keys : d.keys[i] = k]

\* result1 == result2 of the built-in types: numbers by value (a NaN equals
\* nothing), strings by text, sequences and mappings element by element,
\* where an element equals the identical object without being asked
RECURSIVE py_eq(_, _)
py_eq(v1, v2) ==
    IF v1.type \in {"int", "float"} /\ v2.type \in {"int", "float"}
       THEN ~IsNaN(v1) /\ ~IsNaN(v2) /\ NumberOf(v1) = NumberOf(v2)
    ELSE IF v1.type # v2.type THEN FALSE
    ELSE IF v1.type = "str" THEN v1.repr = v2.repr
    ELSE IF v1.type \in {"list", "tuple"}
       THEN /\ Len(v1.items) = Len(v2.items)
            /\ \A i \in DOMAIN v1.items :
                  v1.items[i] = v2.items[i] \/ py_eq(v1.items[i], v2.items[i])
    ELSE IF v1.type = "dict"
       THEN /\ Range(v1.keys) = Range(v2.keys)
            /\ \A k \in Range(v1.keys) :
                  dict_get(v1, k) = dict_get(v2, k)
                  \/ py_eq(dict_get(v1, k), dict_get(v2, k))
    ELSE TRUE

\* str.strip()
strip(text) == IF text = " a" THEN "a" ELSE text

\* faulty variant: only the first string is stripped
strip_equal_first_only(text1, text2) == strip(text1) = text2

\* result1.strip() == result2.strip(), line 821
strip_equal(text1, text2) == strip(text1) = strip(text2)

\* compare_results, lines 795-824
RECURSIVE compare_results(_, _)
compare_results(result1, result2) ==
    IF py_eq(result1, result2) THEN TRUE
    ELSE IF ValueType(result1) # ValueType(result2) THEN FALSE
    ELSE IF ValueType(result1) \in {"list", "tuple"}
       THEN IF Len(result1.items) # Len(result2.items) THEN FALSE
            ELSE \A i \in DOMAIN result1.items :
                    compare_results(result1.items[i], result2.items[i])
    ELSE IF ValueType(result1) = "dict"
       THEN IF Range(result1.keys) # Range(result2.keys) THEN FALSE
            ELSE \A k \in Range(result1.keys) :
                    compare_results(dict_get(result1, k), dict_get(result2, k))
    ELSE IF ValueType(result1) = "str"
       THEN strip_equal(result1.repr, result2.repr)
    ELSE FALSE

\* error kinds: f"{type(e).__name__}: {str(e)}" is modelled by its part
\* before the first colon, the exception type name
Timeout == "TimeoutError"
CalleeErrors == {"TypeError"}

\* orig_error.split(':')[0]
ErrorPrefix(error) == error

\* type(x) of a str
TypeOfStr(x) == "str"

\* faulty variant: a case with an error on either side passes
verdict_passed_any_error(orig_result, orig_error, test_result, test_error) ==
    IF orig_error # None \/ test_error # None
       THEN TRUE
       ELSE compare_results(ValueOf(orig_result), ValueOf(test_result))

\* passed, lines 867-874
verdict_passed(orig_result, orig_error, test_result, test_error) ==
    IF orig_error # None \/ test_error # None
       THEN /\ orig_error # None
            /\ test_error # None
            /\ TypeOfStr(ErrorPrefix(orig_error)) = TypeOfStr(ErrorPrefix(test_error))
       ELSE compare_results(ValueOf(orig_result), ValueOf(test_result))

\* error_msg, lines 871 and 874: <<>> stands for None
verdict_error_msg(orig_result, orig_error, test_result, test_error) ==
    IF (orig_error # None \/ test_error # None)
       /\ ~verdict_passed(orig_result, orig_error, test_result, test_error)
       THEN <<"Original", orig_error, "Test", test_error>>
       ELSE <<>>

DifferentialTestResult(func, orig_outcome, test_outcome) ==
    [function_name |-> func,
     original_result |-> orig_outcome.result,
     test_result |-> test_outcome.result,
     orig_error |-> orig_outcome.error,
     test_error |-> test_outcome.error,
     passed |-> verdict_passed(orig_outcome.result, orig_outcome.error,
                               test_outcome.result, test_outcome.error),
     error_msg |-> verdict_error_msg(orig_outcome.result, orig_outcome.error,
                                     test_outcome.result, test_outcome.error)]

\* faulty variant: the finally block leaves the alarm as it is
finally_alarm_kept(armed) == armed

\* finally: signal.alarm(0), lines 789-793: the alarm state afterwards
finally_alarm(armed) == FALSE

\* except Exception: catches every error but the interpreter-exit request
caught_by_except_Exception(kind) == kind # "SystemExit"

(***************************************************************************)
(* Symbol extractor: analyze_file_structure on the syntax tree of a file.  *)
(* A tree is the sequence of the nodes below the Module node, in source    *)
(* order; each node names its parent (0 is the Module node) and the field  *)
(* of the parent that holds it.                                            *)
(***************************************************************************)
\* largest number of nodes below the Module node of a modelled file
MaxNodes == 3

\* self.original_analysis = None
NoAnalysis == [none |-> TRUE]

EmptyFingerprint ==
    [functions |-> <<>>, classes |-> <<>>, variables |-> <<>>,
     imports |-> [direct_imports |-> {}, from_imports |-> {}]]

\* the statements and expressions of the modelled files: def f(), def f(a),
\* async def f(), class K, x = 1, import os, a compound statement with a
\* statement list as body ("If": if, for, while, with), and an
\* expression whose body field is an expression ("IfExp": a conditional
\* expression or a lambda), written as the value of an assignment
NodeChoices ==
    {[kind |-> "FunctionDef", name |-> "f", args |-> <<>>],
     [kind |-> "FunctionDef", name |-> "f", args |-> <<"a">>],
     [kind |-> "AsyncFunctionDef", name |-> "f", args |-> <<>>],
     [kind |-> "ClassDef", name |-> "K", args |-> <<>>],
     [kind |-> "Assign", name |-> "x", args |-> <<>>],
     [kind |-> "Import", name |-> "os", args |-> <<>>],
     [kind |-> "If", name |-> None, args |-> <<>>],
     [kind |-> "IfExp", name |-> None, args |-> <<>>]}

KindOf(nodes, i) == IF i = 0 THEN "Module" ELSE nodes[i].kind

\* the node kinds whose body field is a list of statements
BlockKinds == {"Module", "FunctionDef", "AsyncFunctionDef", "ClassDef", "If"}

\* hasattr(parent, 'body'), line 157
has_body(kind) == kind \in BlockKinds \cup {"IfExp"}

RECURSIVE AncestorsOrSelf(_, _)
AncestorsOrSelf(nodes, i) ==
    IF i = 0 THEN {0} ELSE {i} \cup AncestorsOrSelf(nodes, nodes[i].parent)

\* the nodes that may still receive a child when the text continues
OpenNodes(nodes) == AncestorsOrSelf(nodes, Len(nodes))

\* the trees that continue the text of a tree by one more node
Extensions(nodes) ==
    {Append(nodes, [kind |-> c.kind, name |-> c.name, args |-> c.args,
                    parent |-> p, field |-> fld]) :
        <<c, p, fld>> \in
            {x \in NodeChoices \X OpenNodes(nodes) \X {"body", "value"} :
                LET c == x[1]
                    p == x[2]
                    fld == x[3]
                IN IF c.kind = "IfExp"
                      THEN /\ KindOf(nodes, p) = "Assign"
                           /\ fld = "value"
                           /\ p = Len(nodes)
                      ELSE /\ KindOf(nodes, p) \in BlockKinds
                           /\ fld = "body"}}

\* the trees of at most n nodes
RECURSIVE TreesUpTo(_)
TreesUpTo(n) ==
    IF n = 0 THEN {<<>>}
    ELSE LET smaller == TreesUpTo(n - 1)
         IN smaller \cup UNION {Extensions(nodes) :
                                nodes \in {t \in smaller : Len(t) = n - 1}}

Trees == TreesUpTo(MaxNodes)

\* ast.iter_child_nodes: the children of a node, in source order
Children(nodes, p) ==
    SelectSeq([i \in 1..Len(nodes) |-> i], LAMBDA i : nodes[i].parent = p)

RECURSIVE ChildrenOfAll(_, _)
ChildrenOfAll(nodes, level) ==
    IF level = <<>> THEN <<>>
    ELSE Children(nodes, Head(level)) \o ChildrenOfAll(nodes, Tail(level))

RECURSIVE walk_from(_, _)
walk_from(nodes, level) ==
    IF level = <<>> THEN <<>>
    ELSE level \o walk_from(nodes, ChildrenOfAll(nodes, level))

\* ast.walk(tree): breadth-first from the Module node
ast_walk(nodes) == walk_from(nodes, <<0>>)

\* the scope check of an assignment, lines 155-161: "True", "False", or
\* "TypeError" when `node not in parent.body` meets a body that is an
\* expression
RECURSIVE scope_check(_, _, _)
scope_check(nodes, n, todo) ==
    IF todo = <<>> THEN "True"
    ELSE LET parent == Head(todo)
         IN IF ~has_body(KindOf(nodes, parent))
               THEN scope_check(nodes, n, Tail(todo))
            ELSE IF KindOf(nodes, parent) \notin BlockKinds
               THEN "TypeError"
            ELSE IF nodes[n].parent = parent /\ nodes[n].field = "body"
               THEN scope_check(nodes, n, Tail(todo))
            ELSE IF KindOf(nodes, parent) = "Module"
               THEN scope_check(nodes, n, Tail(todo))
            ELSE "False"

is_module_level(nodes, n) == scope_check(nodes, n, ast_walk(nodes))

\* d[k] = v
StoreKey(d, k, v) == [n \in DOMAIN d \cup {k} |-> IF n = k THEN v ELSE d[n]]

\* func_info, lines 101-113
func_info(node) ==
    [args |-> node.args, defaults |-> 0, varargs |-> None,
     kwonlyargs |-> <<>>, kwargs |-> None, returns |-> None,
     docstring |-> None, decorators |-> <<>>,
     is_async |-> node.kind = "AsyncFunctionDef"]

\* class_info, lines 122-140: the methods are the (async) function
\* definitions directly in the class body, a later one replacing an earlier
class_info(nodes, i) ==
    LET items == {j \in DOMAIN nodes :
                    /\ nodes[j].parent = i
                    /\ nodes[j].field = "body"
                    /\ nodes[j].kind \in {"FunctionDef", "AsyncFunctionDef"}}
        last(m) == CHOOSE j \in items :
                      /\ nodes[j].name = m
                      /\ \A k \in items : nodes[k].name = m => k <= j
    IN [bases |-> <<>>,
        methods |-> [m \in {nodes[j].name : j \in items} |->
                        [args |-> nodes[last(m)].args]]]

\* ast.unparse(node.value), line 167
unparse_value(nodes, i) ==
    IF \E j \in DOMAIN nodes : nodes[j].parent = i /\ nodes[j].kind = "IfExp"
       THEN "1 if c else 2" ELSE "1"

\* one iteration of the loop of line 98 on node i; an exception ends the
\* analysis without a fingerprint (lines 200-202)
visit(nodes, i, acc) ==
    LET kind == KindOf(nodes, i)
    IN CASE kind = "FunctionDef" ->
              [acc EXCEPT !.functions =
                  StoreKey(@, nodes[i].name, func_info(nodes[i]))]
         [] kind = "ClassDef" ->
              [acc EXCEPT !.classes =
                  StoreKey(@, nodes[i].name, class_info(nodes, i))]
         [] kind = "Import" ->
              [acc EXCEPT !.imports.direct_imports = @ \cup {nodes[i].name}]
         [] kind = "Assign" ->
              LET level == is_module_level(nodes, i)
              IN IF level = "TypeError" THEN NoAnalysis
                 ELSE IF level = "True"
                    THEN [acc EXCEPT !.variables =
                            StoreKey(@, nodes[i].name,
                                     [value |-> unparse_value(nodes, i)])]
                 ELSE acc
         [] OTHER -> acc

RECURSIVE walk_nodes(_, _, _)
walk_nodes(nodes, todo, acc) ==
    IF todo = <<>> \/ acc = NoAnalysis THEN acc
    ELSE walk_nodes(nodes, Tail(todo), visit(nodes, Head(todo), acc))

\* the fingerprint of a parsed file, lines 90-178
walk_tree(nodes) == walk_nodes(nodes, ast_walk(nodes), EmptyFingerprint)

(***************************************************************************)
(* State                                                                   *)
(***************************************************************************)
VARIABLES
    \* comparator specification: the two fingerprints and the last report
    cmpOrig, cmpTest, cmpPhase, cmpReport,
    \* extractor specification: the file read and the analysis returned
    srcFile, exPhase, exResult,
    \* result comparator specification: the two results and the answer
    crLeft, crRight, crPhase, crOut,
    \* command line: the two files and the flags --differential, --score-only
    origFile, testFile, run_differential, score_only,
    \* position of the (single) thread of control
    pc,
    \* validator: self.original_analysis, self.test_analysis
    original_analysis, test_analysis,
    \* validate(): whether it returned, its return value and its final score
    validated, is_interchangeable, score,
    \* run_differential_tests: functions still to test, all_results,
    \* and the tester's self.test_results
    test_functions, all_results, test_results,
    \* test_function_differentially: func_name, cases still to run, results,
    \* the side being executed and the outcome of the original call
    func_name, cases, results, side, orig_outcome,
    \* execute_function_safely: the pending SIGALRM timer, what the callee is
    \* doing (spin flips on every iteration of a callee's endless loop), and
    \* the value or exception travelling through the try statement
    alarm, callee, spin, flight,
    \* process: exit code (-1 while running), the uncaught exception, and
    \* the number printed by --score-only
    exitCode, uncaught, emitted,
    \* history of the run: the calls of load_module_safely made so far, each
    \* with the file it loaded and whether it gave a module
    load_log

cmpVars == <<cmpOrig, cmpTest, cmpPhase, cmpReport>>
extractVars == <<srcFile, exPhase, exResult>>
resultVars == <<crLeft, crRight, crPhase, crOut>>
pureVars == <<extractVars, resultVars>>
inputVars == <<origFile, testFile, run_differential, score_only>>
analysisVars == <<original_analysis, test_analysis>>
validateVars == <<validated, is_interchangeable, score>>
runnerVars == <<test_functions, all_results, test_results>>
testerVars == <<func_name, cases, results, side, orig_outcome>>
execVars == <<alarm, callee, spin, flight>>
processVars == <<exitCode, uncaught, emitted>>
historyVars == <<load_log>>

vars == <<cmpVars, pureVars, inputVars, pc, analysisVars, validateVars, runnerVars,
          testerVars, execVars, processVars, historyVars>>

NoOutcome == [result |-> None, error |-> None]
NoFlight == [kind |-> "none", result |-> None, error |-> None, code |-> 0]
NoUncaught == [kind |-> None, from |-> None]
NoScore == [num |-> 0, den |-> 1]
\* the idle values of the run of main() (comparator specification)
PipelineIdle ==
    /\ origFile = [kind |-> "absent", fp |-> EmptyFingerprint]
    /\ testFile = [kind |-> "absent", fp |-> EmptyFingerprint]
    /\ run_differential = FALSE
    /\ score_only = FALSE
    /\ pc = "idle"
    /\ original_analysis = NoAnalysis
    /\ test_analysis = NoAnalysis
    /\ validated = FALSE
    /\ is_interchangeable = FALSE
    /\ score = NoScore
    /\ test_functions = <<>>
    /\ all_results = <<>>
    /\ test_results = <<>>
    /\ func_name = None
    /\ cases = <<>>
    /\ results = <<>>
    /\ side = None
    /\ orig_outcome = NoOutcome
    /\ alarm = FALSE
    /\ callee = "none"
    /\ spin = FALSE
    /\ flight = NoFlight
    /\ exitCode = -1
    /\ uncaught = NoUncaught
    /\ emitted = NoScore
    /\ load_log = <<>>

\* the idle values of the extractor
ExtractIdle ==
    /\ srcFile = [syntax_valid |-> FALSE, nodes |-> <<>>]
    /\ exPhase = "idle"
    /\ exResult = NoAnalysis

\* the idle values of the result comparator
ResultIdle ==
    /\ crLeft = ValueOf(None)
    /\ crRight = ValueOf(None)
    /\ crPhase = "idle"
    /\ crOut = [forward |-> FALSE, backward |-> FALSE]

\* the idle values of the comparator (specification of main())
CompareIdle ==
    /\ cmpOrig = EmptyFingerprint
    /\ cmpTest = EmptyFingerprint
    /\ cmpPhase = "idle"
    /\ cmpReport = [kind |-> "none"]

(***************************************************************************)
(* SpecCompare: comparator and scorer on a drawn pair of fingerprints      *)
(***************************************************************************)
NoReport == [kind |-> "none"]

FullReport(orig, test) ==
    [kind |-> "report",
     sig |-> analyze_signatures_compatibility(orig, test),
     cls |-> analyze_classes_compatibility(orig, test),
     var |-> analyze_variables_compatibility(orig, test),
     imp |-> analyze_imports_compatibility(orig, test),
     score |-> calculate_compatibility_score(orig, test)]

InitCompare ==
    /\ cmpOrig \in Fingerprints
    /\ cmpTest \in Fingerprints
    /\ cmpPhase = "input"
    /\ cmpReport = NoReport
    /\ PipelineIdle
    /\ ExtractIdle
    /\ ResultIdle

\* the four analyses and the score of (original = cmpOrig, candidate = cmpTest)
Compare ==
    /\ cmpPhase = "input"
    /\ cmpReport' = FullReport(cmpOrig, cmpTest)
    /\ cmpPhase' = "compared"
    /\ UNCHANGED <<cmpOrig, cmpTest, pureVars, historyVars, inputVars, pc, analysisVars, validateVars,
                   runnerVars, testerVars, execVars, processVars>>

NextCompare == Compare

SpecCompare == InitCompare /\ [][NextCompare]_vars

Compared == cmpPhase = "compared"

\* C3: comparing a fingerprint with itself scores exactly 100, with every
\* function, class and variable compatible and nothing missing, extra or
\* incompatible.
C3_SelfComparisonIs100 ==
    (Compared /\ cmpOrig = cmpTest) =>
        /\ cmpReport.score.num = 100 * cmpReport.score.den
        /\ cmpReport.sig.compatible_functions = Keys(cmpOrig.functions)
        /\ cmpReport.cls.compatible_classes = Keys(cmpOrig.classes)
        /\ cmpReport.var.compatible_variables = Keys(cmpOrig.variables)
        /\ cmpReport.sig.incompatible_functions = <<>>
        /\ cmpReport.sig.missing_functions = <<>>
        /\ cmpReport.sig.extra_functions = <<>>
        /\ cmpReport.cls.incompatible_classes = <<>>
        /\ cmpReport.cls.missing_classes = <<>>
        /\ cmpReport.cls.extra_classes = <<>>
        /\ cmpReport.var.different_variables = <<>>
        /\ cmpReport.var.missing_variables = <<>>
        /\ cmpReport.var.extra_variables = <<>>

\* a self-comparison of a fingerprint that declares functions, a class and
\* a variable has been made
C3_Witness ==
    /\ Compared
    /\ cmpOrig = cmpTest
    /\ DOMAIN cmpOrig.functions = Range(FuncNames)
    /\ DOMAIN cmpOrig.classes # {}
    /\ DOMAIN cmpOrig.variables # {}

\* C4: the score is compatible / total-of-the-original * 100, lies in
\* [0,100], and is 100 when the original declares nothing.
C4_ScoreIsCompatibleOverTotal ==
    Compared =>
        LET compatible == Len(cmpReport.sig.compatible_functions)
                          + Len(cmpReport.cls.compatible_classes)
                          + Len(cmpReport.var.compatible_variables)
            total == Cardinality(DOMAIN cmpOrig.functions)
                     + Cardinality(DOMAIN cmpOrig.classes)
                     + Cardinality(DOMAIN cmpOrig.variables)
        IN /\ cmpReport.score.den > 0
           /\ 0 <= cmpReport.score.num
           /\ cmpReport.score.num <= 100 * cmpReport.score.den
           /\ total > 0 =>
                cmpReport.score.num * total
                    = compatible * 100 * cmpReport.score.den
           /\ total = 0 => cmpReport.score.num = 100 * cmpReport.score.den

\* an empty original has been scored against a candidate that declares
\* something
C4_Witness ==
    /\ Compared
    /\ total_elements(cmpOrig) = 0
    /\ total_elements(cmpTest) > 0

\* a score strictly between 0 and 100 has been computed
C4_WitnessPartial ==
    /\ Compared
    /\ 0 < cmpReport.score.num
    /\ cmpReport.score.num < 100 * cmpReport.score.den

\* C5: a name is missing for (A, B) iff it is extra for (B, A), for
\* functions, classes, variables, direct imports and from-imports.
C5_MissingIsExtraSwapped ==
    Compared =>
        LET swapped == FullReport(cmpTest, cmpOrig)
        IN /\ Range(cmpReport.sig.missing_functions)
                = Range(swapped.sig.extra_functions)
           /\ Range(cmpReport.cls.missing_classes)
                = Range(swapped.cls.extra_classes)
           /\ Range(cmpReport.var.missing_variables)
                = Range(swapped.var.extra_variables)
           /\ cmpReport.imp.missing_direct_imports
                = swapped.imp.extra_direct_imports
           /\ cmpReport.imp.missing_from_imports
                = swapped.imp.extra_from_imports

\* a comparison with a missing function, class, variable and import
C5_Witness ==
    /\ Compared
    /\ cmpReport.sig.missing_functions # <<>>
    /\ cmpReport.cls.missing_classes # <<>>
    /\ cmpReport.var.missing_variables # <<>>
    /\ cmpReport.imp.missing_direct_imports # {}
    /\ cmpReport.imp.missing_from_imports # {}


(***************************************************************************)
(* SpecClasses: the comparator on two declarations of one class            *)
(***************************************************************************)
\* class_info of the compared declarations: no, one or two bases in either
\* order, and any of the methods run and stop with one or two parameters
ClassCases ==
    [bases : {<<>>, <<"Base">>, <<"Base", "Mixin">>, <<"Mixin", "Base">>},
     methods : UNION {[S -> [args : {<<"self">>, <<"self", "a">>}]] :
                        S \in SUBSET {"run", "stop"}}]

\* the fingerprint of a file that declares class K and nothing else
ClassFingerprint(class_sig) ==
    [EmptyFingerprint EXCEPT !.classes = [n \in {"K"} |-> class_sig]]

InitClasses ==
    /\ cmpOrig \in {ClassFingerprint(c) : c \in ClassCases}
    /\ cmpTest \in {ClassFingerprint(c) : c \in ClassCases}
    /\ cmpPhase = "input"
    /\ cmpReport = NoReport
    /\ PipelineIdle
    /\ ExtractIdle
    /\ ResultIdle

SpecClasses == InitClasses /\ [][NextCompare]_vars

\* every method the two classes share has the same positional parameters
CommonMethodsAgree(orig_class, test_class) ==
    \A m \in DOMAIN orig_class.methods \cap DOMAIN test_class.methods :
        orig_class.methods[m].args = test_class.methods[m].args

\* C14 as stated: a class in both fingerprints is compatible exactly when
\* its base sequences are identical and every method in both has identical
\* positional parameters; a method in only one class does not make the
\* class incompatible.
C14_CompatibleIffBasesAndCommonMethods ==
    (Compared /\ "K" \in DOMAIN cmpOrig.classes /\ "K" \in DOMAIN cmpTest.classes) =>
        ("K" \in Range(cmpReport.cls.compatible_classes)
            <=> /\ cmpOrig.classes["K"].bases = cmpTest.classes["K"].bases
                /\ CommonMethodsAgree(cmpOrig.classes["K"], cmpTest.classes["K"]))

\* C14 amended: a class in both fingerprints is compatible exactly when its
\* base sequences are identical, the two classes have the same method
\* names, and every method has identical positional parameters; a method
\* in only one class is reported as a difference, makes the class
\* incompatible and removes it from the compatible count.
C14_CompatibleIffBasesAndAllMethods ==
    (Compared /\ "K" \in DOMAIN cmpOrig.classes /\ "K" \in DOMAIN cmpTest.classes) =>
        LET orig_class == cmpOrig.classes["K"]
            test_class == cmpTest.classes["K"]
            same == /\ orig_class.bases = test_class.bases
                    /\ DOMAIN orig_class.methods = DOMAIN test_class.methods
                    /\ CommonMethodsAgree(orig_class, test_class)
        IN /\ "K" \in Range(cmpReport.cls.compatible_classes) <=> same
           /\ "K" \in Range(cmpReport.cls.incompatible_classes) <=> ~same
           /\ cmpReport.score.num = (IF same THEN 100 ELSE 0) * cmpReport.score.den
           /\ DOMAIN orig_class.methods # DOMAIN test_class.methods =>
                \E d \in cmpReport.cls.class_differences["K"] :
                    d[1] \in {"Missing methods", "Extra methods"}

\* two declarations with the same bases whose shared methods agree have
\* been compared, one of them having a method the other lacks
C14_Witness ==
    /\ Compared
    /\ DOMAIN cmpOrig.classes = {"K"}
    /\ DOMAIN cmpTest.classes = {"K"}
    /\ cmpOrig.classes["K"].bases = cmpTest.classes["K"].bases
    /\ DOMAIN cmpOrig.classes["K"].methods = {"run", "stop"}
    /\ DOMAIN cmpTest.classes["K"].methods = {"run"}
    /\ CommonMethodsAgree(cmpOrig.classes["K"], cmpTest.classes["K"])
    /\ "K" \in Range(cmpReport.cls.incompatible_classes)

(***************************************************************************)
(* SpecSignatures: the comparator on two declarations of one function      *)
(***************************************************************************)
\* func_info of the compared declarations: every compared field takes two
\* values, and at most one of the descriptive fields (keyword-only
\* parameters, docstring, decorators) is set
SignatureCases ==
    {sig \in [args : {<<"a">>, <<"a", "b">>}, defaults : 0..MaxDefaults,
              varargs : {None, "args"}, kwonlyargs : {<<>>, <<"key">>},
              kwargs : {None, "kwargs"}, returns : {None, "int"},
              docstring : {None, "doc"}, decorators : {<<>>, <<"cache">>},
              is_async : BOOLEAN] :
        /\ sig.defaults <= Len(sig.args)
        /\ (IF sig.kwonlyargs # <<>> THEN 1 ELSE 0)
             + (IF sig.docstring # None THEN 1 ELSE 0)
             + (IF sig.decorators # <<>> THEN 1 ELSE 0) <= 1}

\* the fingerprint of a file that declares function f and nothing else
SignatureFingerprint(sig) ==
    [EmptyFingerprint EXCEPT !.functions = [n \in {"f"} |-> sig]]

InitSignatures ==
    /\ cmpOrig \in {SignatureFingerprint(sig) : sig \in SignatureCases}
    /\ cmpTest \in {SignatureFingerprint(sig) : sig \in SignatureCases}
    /\ cmpPhase = "input"
    /\ cmpReport = NoReport
    /\ PipelineIdle
    /\ ExtractIdle
    /\ ResultIdle

SpecSignatures == InitSignatures /\ [][NextCompare]_vars

\* the labels of the compared fields in which two declarations differ
DifferingFields(orig_func, test_func) ==
    {label \in {"Arguments", "Defaults", "*args", "**kwargs", "Return", "Async"} :
        CASE label = "Arguments" -> orig_func.args # test_func.args
          [] label = "Defaults" -> orig_func.defaults # test_func.defaults
          [] label = "*args" -> orig_func.varargs # test_func.varargs
          [] label = "**kwargs" -> orig_func.kwargs # test_func.kwargs
          [] label = "Return" -> orig_func.returns # test_func.returns
          [] label = "Async" -> orig_func.is_async # test_func.is_async}

\* C15: a function in both fingerprints is compatible exactly when its
\* positional parameters, default count, *args name, **kwargs name, return
\* text and async flag are equal; otherwise it is incompatible with one
\* difference string per differing field; keyword-only parameters,
\* decorators and docstrings never matter.
C15_CompatibleIffComparedFieldsEqual ==
    (Compared /\ "f" \in DOMAIN cmpOrig.functions /\ "f" \in DOMAIN cmpTest.functions) =>
        LET differing == DifferingFields(cmpOrig.functions["f"], cmpTest.functions["f"])
            differences == cmpReport.sig.signature_differences
        IN /\ "f" \in Range(cmpReport.sig.compatible_functions) <=> differing = {}
           /\ "f" \in Range(cmpReport.sig.incompatible_functions) <=> differing # {}
           /\ differing = {} => "f" \notin DOMAIN differences
           /\ differing # {} =>
                /\ Len(differences["f"]) = Cardinality(differing)
                /\ {differences["f"][i][1] : i \in DOMAIN differences["f"]} = differing

\* two declarations that differ in the default count and in their
\* decorators only have been compared, and the function is incompatible
\* with the single "Defaults" difference
C15_Witness ==
    /\ Compared
    /\ DOMAIN cmpOrig.functions = {"f"}
    /\ DOMAIN cmpTest.functions = {"f"}
    /\ DifferingFields(cmpOrig.functions["f"], cmpTest.functions["f"]) = {"Defaults"}
    /\ cmpOrig.functions["f"].decorators # cmpTest.functions["f"].decorators
    /\ cmpReport.sig.incompatible_functions = <<"f">>
    /\ Len(cmpReport.sig.signature_differences["f"]) = 1

\* two declarations that differ in a descriptive field only have been
\* compared, and the function is compatible
C15_WitnessDescriptive ==
    /\ Compared
    /\ DOMAIN cmpOrig.functions = {"f"}
    /\ DOMAIN cmpTest.functions = {"f"}
    /\ cmpOrig.functions["f"].kwonlyargs # cmpTest.functions["f"].kwonlyargs
    /\ cmpReport.sig.compatible_functions = <<"f">>

(***************************************************************************)
(* SpecExtract: analyze_file_structure on a drawn file                     *)
(***************************************************************************)
\* what executing a file's top-level code does: it completes (normally or
\* with an error that "except Exception" catches) or it asks the interpreter
\* to exit with code 0 or 1
TopLevelOutcomes == {"completes", "raises", "exit0", "exit1"}

\* a readable file: one that ast.parse rejects, or a syntax tree
SourceFiles ==
    {[syntax_valid |-> FALSE, nodes |-> <<>>]}
    \cup {[syntax_valid |-> TRUE, nodes |-> nodes] : nodes \in Trees}

InitExtract ==
    /\ srcFile \in SourceFiles
    /\ exPhase = "input"
    /\ exResult = NoAnalysis
    /\ CompareIdle
    /\ ResultIdle
    /\ PipelineIdle

\* analyze_file_structure(filepath), lines 71-202: the syntax check, the
\* walk, then test_importability, which executes the file; an exception of
\* the walk is caught at line 200, an exit request of the file is not
AnalyzeFile ==
    /\ exPhase = "input"
    /\ IF ~srcFile.syntax_valid \/ walk_tree(srcFile.nodes) = NoAnalysis
          THEN /\ exResult' = NoAnalysis
               /\ exPhase' = "returned"
          ELSE \E top \in TopLevelOutcomes :
                  IF caught_by_except_Exception(
                        IF top \in {"exit0", "exit1"} THEN "SystemExit"
                                                     ELSE "Exception")
                     THEN /\ exResult' = walk_tree(srcFile.nodes)
                          /\ exPhase' = "returned"
                     ELSE /\ exPhase' = "died"
                          /\ UNCHANGED exResult
    /\ UNCHANGED <<srcFile, cmpVars, resultVars, historyVars, inputVars, pc, analysisVars,
                   validateVars, runnerVars, testerVars, execVars, processVars>>

NextExtract == AnalyzeFile

SpecExtract == InitExtract /\ [][NextExtract]_vars

\* the analysis returned a fingerprint
Extracted == exPhase = "returned" /\ exResult # NoAnalysis

\* C11: an analysis returns no fingerprint only when the file has a syntax
\* error: every syntactically valid file, whatever declarations and
\* expressions it contains, gets a fingerprint.
C11_NoFingerprintOnlyOnSyntaxError ==
    (exPhase = "returned" /\ srcFile.syntax_valid) => exResult # NoAnalysis

\* the assignment statements directly in the module body
ModuleLevelAssigns(nodes) ==
    {i \in DOMAIN nodes : nodes[i].kind = "Assign" /\ nodes[i].parent = 0}

\* C17: the variables of the fingerprint are exactly the names assigned
\* directly in the module body, whatever else the file contains; a nested
\* assignment is never recorded.
C17_VariablesAreModuleLevelAssignments ==
    Extracted =>
        DOMAIN exResult.variables =
            {srcFile.nodes[i].name : i \in ModuleLevelAssigns(srcFile.nodes)}

\* the declarations of functions, synchronous or async, at any depth
FunctionDeclarations(nodes) ==
    {i \in DOMAIN nodes : nodes[i].kind \in {"FunctionDef", "AsyncFunctionDef"}}

\* C18: every function declaration, synchronous or async and at any depth,
\* has an entry in functions, whose async flag is that of a declaration of
\* the name.
C18_EveryFunctionDeclarationRecorded ==
    Extracted =>
        \A i \in FunctionDeclarations(srcFile.nodes) :
            /\ srcFile.nodes[i].name \in DOMAIN exResult.functions
            /\ \E j \in FunctionDeclarations(srcFile.nodes) :
                  /\ srcFile.nodes[j].name = srcFile.nodes[i].name
                  /\ exResult.functions[srcFile.nodes[i].name].is_async
                        = (srcFile.nodes[j].kind = "AsyncFunctionDef")

\* the declaration in a non-empty set of nodes that comes last in the text
LastInText(decls) == CHOOSE i \in decls : \A j \in decls : j <= i

\* C19: a function name declared more than once, at any depths, has one
\* entry, the signature of the declaration that comes last in the source
\* text (stated for names whose declarations are all synchronous).
C19_LastTextualDeclarationWins ==
    Extracted =>
        \A n \in {srcFile.nodes[i].name : i \in FunctionDeclarations(srcFile.nodes)} :
            LET decls == {i \in FunctionDeclarations(srcFile.nodes) :
                            srcFile.nodes[i].name = n}
            IN (\A i \in decls : srcFile.nodes[i].kind = "FunctionDef") =>
                  /\ n \in DOMAIN exResult.functions
                  /\ exResult.functions[n] = func_info(srcFile.nodes[LastInText(decls)])

(***************************************************************************)
(* SpecResults: compare_results on a drawn pair of results                 *)
(***************************************************************************)
InitResults ==
    /\ crLeft \in Values
    /\ crRight \in Values
    /\ crPhase = "input"
    /\ crOut = [forward |-> FALSE, backward |-> FALSE]
    /\ CompareIdle
    /\ ExtractIdle
    /\ PipelineIdle

\* the two calls compare_results(left, right) and compare_results(right,
\* left); crOut holds both answers
CompareResults ==
    /\ crPhase = "input"
    /\ crOut' = [forward |-> compare_results(crLeft, crRight),
                 backward |-> compare_results(crRight, crLeft)]
    /\ crPhase' = "compared"
    /\ UNCHANGED <<crLeft, crRight, cmpVars, extractVars, historyVars, inputVars, pc,
                   analysisVars, validateVars, runnerVars, testerVars,
                   execVars, processVars>>

NextResults == CompareResults

SpecResults == InitResults /\ [][NextResults]_vars

ResultsCompared == crPhase = "compared"

\* C12: compare_results(x, x) is true for every result x, a scalar that
\* does not equal itself included.
C12_CompareResultsReflexive ==
    (ResultsCompared /\ crLeft = crRight) => crOut.forward

\* C13: compare_results(x, y) = compare_results(y, x) for all results of
\* the supported shapes, nested to any depth.
C13_CompareResultsSymmetric ==
    ResultsCompared => (crOut.forward <=> crOut.backward)

\* pairs of different results of the same shape have been compared, with
\* the answer true (strings that differ in surrounding whitespace, nested
\* in a mapping) and with the answer false (sequences that differ in an
\* element)
C13_Witness ==
    /\ ResultsCompared
    /\ crLeft # crRight
    /\ crLeft.type = "dict"
    /\ crLeft.keys # <<>>
    /\ crLeft.items[1].type = "str"
    /\ crOut.forward
    /\ crOut.backward

(***************************************************************************)
(* Spec: one run of main()                                                 *)
(***************************************************************************)
\* the fingerprints of the files given to main(): a function f with any
\* modelled signature and, next to a parameterless f, a parameterless g
RunFingerprints ==
    {fp \in Fingerprints :
        /\ fp.classes = <<>>
        /\ fp.variables = <<>>
        /\ fp.imports = [direct_imports |-> {}, from_imports |-> {}]
        /\ "g" \in DOMAIN fp.functions =>
                /\ fp.functions["g"].args = <<>>
                /\ "f" \in DOMAIN fp.functions
                /\ fp.functions["f"].args = <<>>}

\* a file on the command line: absent, present with a syntax error, or
\* present and parsed into its fingerprint
Files ==
    {[kind |-> k, fp |-> EmptyFingerprint] : k \in {"absent", "syntax_error"}}
    \cup {[kind |-> "ok", fp |-> fp] : fp \in RunFingerprints}

ExitArg(outcome) == IF outcome = "exit0" THEN 0 ELSE 1

Init ==
    /\ CompareIdle
    /\ ExtractIdle
    /\ ResultIdle
    /\ origFile \in Files
    /\ testFile \in Files
    /\ run_differential \in BOOLEAN
    /\ score_only \in BOOLEAN
    /\ pc = "main"
    /\ original_analysis = NoAnalysis
    /\ test_analysis = NoAnalysis
    /\ validated = FALSE
    /\ is_interchangeable = FALSE
    /\ score = NoScore
    /\ test_functions = <<>>
    /\ all_results = <<>>
    /\ test_results = <<>>
    /\ func_name = None
    /\ cases = <<>>
    /\ results = <<>>
    /\ side = None
    /\ orig_outcome = NoOutcome
    /\ alarm = FALSE
    /\ callee = "none"
    /\ spin = FALSE
    /\ flight = NoFlight
    /\ exitCode = -1
    /\ uncaught = NoUncaught
    /\ emitted = NoScore
    /\ load_log = <<>>

\* the interpreter ends the process on an exception nobody caught:
\* SystemExit(code) exits with code, any other exception with 1
ProcessDies(kind, code, from) ==
    /\ pc' = "exited"
    /\ uncaught' = [kind |-> kind, from |-> from]
    /\ exitCode' = IF kind = "SystemExit" THEN code ELSE 1

\* main(), lines 995-1002: the existence checks
MainCheckFiles ==
    /\ pc = "main"
    /\ IF origFile.kind = "absent" \/ testFile.kind = "absent"
          THEN /\ pc' = "exited"
               /\ exitCode' = 1
               /\ UNCHANGED <<uncaught, emitted>>
          ELSE /\ pc' = "analyze_original"
               /\ UNCHANGED processVars
    /\ UNCHANGED <<cmpVars, pureVars, historyVars, inputVars, analysisVars, validateVars, runnerVars,
                   testerVars, execVars>>

\* analyze_file_structure(filepath): None on a syntax error, else the
\* fingerprint, after test_importability has executed the file
analyze_file_structure(file) ==
    IF file.kind = "syntax_error" THEN NoAnalysis ELSE file.fp

\* validate(), line 447
AnalyzeOriginal ==
    /\ pc = "analyze_original"
    /\ \E top \in TopLevelOutcomes :
          IF origFile.kind = "ok" /\ ~caught_by_except_Exception(
                    IF top \in {"exit0", "exit1"} THEN "SystemExit" ELSE "Exception")
             THEN /\ ProcessDies("SystemExit", ExitArg(top), "analyze_file_structure")
                  /\ UNCHANGED <<analysisVars, emitted>>
             ELSE /\ original_analysis' = analyze_file_structure(origFile)
                  /\ pc' = "analyze_test"
                  /\ UNCHANGED <<test_analysis, processVars>>
    /\ UNCHANGED <<cmpVars, pureVars, historyVars, inputVars, validateVars, runnerVars, testerVars,
                   execVars>>

\* validate(), line 448
AnalyzeTest ==
    /\ pc = "analyze_test"
    /\ \E top \in TopLevelOutcomes :
          IF testFile.kind = "ok" /\ ~caught_by_except_Exception(
                    IF top \in {"exit0", "exit1"} THEN "SystemExit" ELSE "Exception")
             THEN /\ ProcessDies("SystemExit", ExitArg(top), "analyze_file_structure")
                  /\ UNCHANGED <<analysisVars, emitted>>
             ELSE /\ test_analysis' = analyze_file_structure(testFile)
                  /\ pc' = "validate_check"
                  /\ UNCHANGED <<original_analysis, processVars>>
    /\ UNCHANGED <<cmpVars, pureVars, historyVars, inputVars, validateVars, runnerVars, testerVars,
                   execVars>>

\* validate(), lines 450-460
ValidateCheck ==
    /\ pc = "validate_check"
    /\ IF original_analysis = NoAnalysis \/ test_analysis = NoAnalysis
          THEN /\ validated' = TRUE
               /\ is_interchangeable' = FALSE
               /\ pc' = "main_output"
               /\ UNCHANGED score
          ELSE /\ pc' = IF run_differential THEN "run_differential_tests"
                        ELSE "validate_score"
               /\ UNCHANGED validateVars
    /\ UNCHANGED <<cmpVars, pureVars, historyVars, inputVars, analysisVars, runnerVars, testerVars,
                   execVars, processVars>>

\* the orders in which list(set) may enumerate a set
Orders(S) ==
    {seq \in [1..Cardinality(S) -> S] : Range(seq) = S}

\* run_differential_tests, lines 895-908
RunDifferentialStart ==
    /\ pc = "run_differential_tests"
    /\ LET common_functions == DOMAIN original_analysis.functions
                               \cap DOMAIN test_analysis.functions
       IN \E order \in Orders(common_functions) :
             test_functions' = Prefix(order, max_functions_per_module)
    /\ all_results' = <<>>
    /\ pc' = "next_function"
    /\ UNCHANGED <<cmpVars, pureVars, historyVars, inputVars, analysisVars, validateVars, test_results,
                   testerVars, execVars, processVars>>

\* run_differential_tests, lines 910 and 919-920: the loop head
NextFunction ==
    /\ pc = "next_function"
    /\ IF test_functions = <<>>
          THEN /\ test_results' = all_results
               /\ pc' = "validate_score"
               /\ UNCHANGED <<test_functions, all_results, func_name>>
          ELSE /\ func_name' = Head(test_functions)
               /\ test_functions' = Tail(test_functions)
               /\ pc' = "load_modules"
               /\ UNCHANGED <<all_results, test_results>>
    /\ UNCHANGED <<cmpVars, pureVars, historyVars, inputVars, analysisVars, validateVars, cases, results,
                   side, orig_outcome, execVars, processVars>>

\* load_module_safely, lines 705-734: the entry of the history for one call;
\* an error of the file's top-level code is caught and gives None
LoadEntry(file, outcome) ==
    [file |-> file, loaded |-> outcome = "completes"]

\* test_function_differentially, lines 828-855: both sandbox loads, the two
\* getattr and create_test_inputs.  A load gives a module, None (an error
\* that load_module_safely catches) or an interpreter-exit request.
LoadModules ==
    /\ pc = "load_modules"
    /\ \E orig_load, test_load \in TopLevelOutcomes, orig_func, test_func \in BOOLEAN :
          IF orig_load \in {"exit0", "exit1"}
             THEN /\ ProcessDies("SystemExit", ExitArg(orig_load),
                                 "run_differential_tests")
                  /\ UNCHANGED <<cases, results, emitted, load_log>>
          ELSE IF test_load \in {"exit0", "exit1"}
             THEN /\ ProcessDies("SystemExit", ExitArg(test_load),
                                 "run_differential_tests")
                  /\ load_log' = Append(load_log, LoadEntry("original", orig_load))
                  /\ UNCHANGED <<cases, results, emitted>>
          ELSE /\ load_log' = load_log \o <<LoadEntry("original", orig_load),
                                            LoadEntry("test", test_load)>>
               /\ IF orig_load = "raises" \/ test_load = "raises"
                     \/ ~orig_func \/ ~test_func
                     THEN \* return results (empty); the caller extends all_results
                          /\ pc' = "next_function"
                          /\ UNCHANGED <<cases, results, processVars>>
                     ELSE /\ cases' = create_test_inputs(
                                         original_analysis.functions[func_name])
                          /\ results' = <<>>
                          /\ pc' = "next_case"
                          /\ UNCHANGED processVars
    /\ UNCHANGED <<cmpVars, pureVars, inputVars, analysisVars, validateVars, runnerVars,
                   func_name, side, orig_outcome, execVars>>

\* test_function_differentially, lines 857 and 889, and lines 914-915 of
\* the caller: the loop head
NextCase ==
    /\ pc = "next_case"
    /\ IF cases = <<>>
          THEN /\ all_results' = all_results \o results
               /\ results' = <<>>
               /\ pc' = "next_function"
               /\ UNCHANGED <<cases, side>>
          ELSE /\ cases' = Tail(cases)
               /\ side' = "original"
               /\ pc' = "arm"
               /\ UNCHANGED <<all_results, results>>
    /\ UNCHANGED <<cmpVars, pureVars, historyVars, inputVars, analysisVars, validateVars, test_functions,
                   test_results, func_name, orig_outcome, execVars, processVars>>

(***************************************************************************)
(* execute_function_safely                                                 *)
(***************************************************************************)
\* positions inside execute_function_safely after the alarm was armed
Executing == {"call", "cancel", "except", "finally"}

\* lines 768-776: install timeout_handler, signal.alarm(5)
ExecArm ==
    /\ pc = "arm"
    /\ alarm' = TRUE
    /\ callee' = "running"
    /\ spin' = FALSE
    /\ flight' = NoFlight
    /\ pc' = "call"
    /\ UNCHANGED <<cmpVars, pureVars, historyVars, inputVars, analysisVars, validateVars, runnerVars,
                   testerVars, processVars>>

\* line 778: the callee returns a value
CalleeReturns ==
    /\ pc = "call" /\ callee = "running"
    /\ \E v \in RetVals :
          flight' = [kind |-> "result", result |-> v, error |-> None, code |-> 0]
    /\ callee' = "none"
    /\ pc' = "cancel"
    /\ UNCHANGED <<cmpVars, pureVars, historyVars, inputVars, analysisVars, validateVars, runnerVars,
                   testerVars, alarm, spin, processVars>>

\* line 778: the callee raises; "except Exception" takes an ordinary error,
\* an interpreter-exit request goes straight to the finally block
CalleeRaises ==
    /\ pc = "call" /\ callee = "running"
    /\ \E kind \in CalleeErrors \cup {"SystemExit"}, code \in {0, 1} :
          /\ kind # "SystemExit" => code = 0
          /\ flight' = [kind |-> "exception", result |-> None, error |-> kind,
                        code |-> code]
          /\ pc' = IF caught_by_except_Exception(kind) THEN "except" ELSE "finally"
    /\ callee' = "none"
    /\ UNCHANGED <<cmpVars, pureVars, historyVars, inputVars, analysisVars, validateVars, runnerVars,
                   testerVars, alarm, spin, processVars>>

\* line 778: the callee enters a loop it never leaves by itself; it may
\* catch the exceptions raised inside the loop
CalleeLoops ==
    /\ pc = "call" /\ callee = "running"
    /\ \E mode \in {"loop", "loop_catching"} : callee' = mode
    /\ UNCHANGED <<cmpVars, pureVars, historyVars, inputVars, analysisVars, validateVars, runnerVars,
                   testerVars, alarm, spin, flight, pc, processVars>>

\* line 778: one more iteration of the callee's endless loop
CalleeIterates ==
    /\ pc = "call" /\ callee \in {"loop", "loop_catching"}
    /\ spin' = ~spin
    /\ UNCHANGED <<cmpVars, pureVars, historyVars, inputVars, analysisVars, validateVars, runnerVars,
                   testerVars, alarm, callee, flight, pc, processVars>>

\* line 778: the callee uses the sandbox's signal module on the process-wide
\* timer: signal.alarm(0) cancels it, signal.alarm(n) arms it again
CalleeSetsAlarm ==
    /\ pc = "call" /\ callee = "running"
    /\ alarm' = ~alarm
    /\ UNCHANGED <<cmpVars, pureVars, historyVars, inputVars, analysisVars, validateVars, runnerVars,
                   testerVars, callee, spin, flight, pc, processVars>>

\* SIGALRM: timeout_handler raises TimeoutError at the point the thread
\* has reached (lines 772-773)
AlarmFires ==
    /\ alarm
    /\ pc \in Executing
    /\ alarm' = FALSE
    /\ CASE pc = "call" /\ callee = "loop_catching" ->
                \* raised inside the callee's own try: swallowed there
                UNCHANGED <<pc, callee, flight, results>>
         [] pc = "call" /\ callee # "loop_catching" ->
                /\ flight' = [kind |-> "exception", result |-> None,
                              error |-> Timeout, code |-> 0]
                /\ callee' = "none"
                /\ pc' = "except"
                /\ UNCHANGED results
         [] pc = "cancel" ->
                \* after the callee returned, before line 780
                /\ flight' = [kind |-> "exception", result |-> None,
                              error |-> Timeout, code |-> 0]
                /\ pc' = "except"
                /\ UNCHANGED <<callee, results>>
         [] pc = "except" ->
                \* inside the except branch: leaves it through the finally
                /\ flight' = [kind |-> "exception", result |-> None,
                              error |-> Timeout, code |-> 0]
                /\ pc' = "finally"
                /\ UNCHANGED <<callee, results>>
         [] pc = "finally" ->
                \* inside try: signal.alarm(0) except: pass
                UNCHANGED <<pc, callee, flight, results>>
    /\ UNCHANGED <<cmpVars, pureVars, historyVars, inputVars, analysisVars, validateVars, runnerVars,
                   func_name, cases, side, orig_outcome, spin, processVars>>

\* lines 780-783: signal.alarm(0), return result, execution_time, None
ExecCancel ==
    /\ pc = "cancel"
    /\ alarm' = FALSE
    /\ flight' = [flight EXCEPT !.kind = "return"]
    /\ pc' = "finally"
    /\ UNCHANGED <<cmpVars, pureVars, historyVars, inputVars, analysisVars, validateVars, runnerVars,
                   testerVars, callee, spin, processVars>>

\* lines 785-788: return None, execution_time, error_msg
ExecExcept ==
    /\ pc = "except"
    /\ flight' = [flight EXCEPT !.kind = "return"]
    /\ pc' = "finally"
    /\ UNCHANGED <<cmpVars, pureVars, historyVars, inputVars, analysisVars, validateVars, runnerVars,
                   testerVars, alarm, callee, spin, processVars>>

\* lines 789-793, then control goes back: a returned triple to line 861 or
\* 864 (and lines 866-887 after the second call), an exception to the
\* handler of run_differential_tests (line 916) or out of the process
ExecFinally ==
    /\ pc = "finally"
    /\ alarm' = finally_alarm(alarm)
    /\ flight' = NoFlight
    /\ callee' = "none"
    /\ spin' = FALSE
    /\ IF flight.kind = "return"
          THEN LET outcome == [result |-> flight.result, error |-> flight.error]
               IN IF side = "original"
                     THEN /\ orig_outcome' = outcome
                          /\ side' = "test"
                          /\ pc' = "arm"
                          /\ UNCHANGED <<results, processVars>>
                     ELSE /\ results' = Append(results,
                                DifferentialTestResult(func_name, orig_outcome, outcome))
                          /\ orig_outcome' = NoOutcome
                          /\ side' = None
                          /\ pc' = "next_case"
                          /\ UNCHANGED processVars
          ELSE IF caught_by_except_Exception(flight.error)
             THEN \* line 916: the function's results are dropped
                  /\ results' = <<>>
                  /\ orig_outcome' = NoOutcome
                  /\ side' = None
                  /\ pc' = "next_function"
                  /\ UNCHANGED processVars
             ELSE /\ ProcessDies(flight.error, flight.code, "run_differential_tests")
                  /\ UNCHANGED <<results, orig_outcome, side, emitted>>
    /\ UNCHANGED <<cmpVars, pureVars, historyVars, inputVars, analysisVars, validateVars, runnerVars,
                   func_name, cases>>

(***************************************************************************)
(* validate(): the verdict; main(): output and exit code                   *)
(***************************************************************************)
\* validate(), lines 462-484
ValidateScore ==
    /\ pc = "validate_score"
    /\ LET final == final_score(
                        calculate_compatibility_score(original_analysis, test_analysis),
                        run_differential, test_results)
       IN /\ score' = final
          /\ is_interchangeable' = GE(final, Threshold)
    /\ validated' = TRUE
    /\ pc' = "main_output"
    /\ UNCHANGED <<cmpVars, pureVars, historyVars, inputVars, analysisVars, runnerVars, testerVars,
                   execVars, processVars>>

\* main(), lines 1015-1036: the score or the report, then sys.exit
MainOutput ==
    /\ pc = "main_output"
    /\ IF score_only
          THEN IF original_analysis = NoAnalysis \/ test_analysis = NoAnalysis
                  THEN \* self.original_analysis.functions on None
                       /\ ProcessDies("AttributeError", 1, "calculate_compatibility_score")
                       /\ UNCHANGED emitted
                  ELSE /\ emitted' = calculate_compatibility_score(
                                         original_analysis, test_analysis)
                       /\ exitCode' = IF is_interchangeable THEN 0 ELSE 1
                       /\ pc' = "exited"
                       /\ UNCHANGED uncaught
          ELSE /\ exitCode' = IF is_interchangeable THEN 0 ELSE 1
               /\ pc' = "exited"
               /\ UNCHANGED <<uncaught, emitted>>
    /\ UNCHANGED <<cmpVars, pureVars, historyVars, inputVars, analysisVars, validateVars, runnerVars,
                   testerVars, execVars>>

Next ==
    \/ MainCheckFiles
    \/ AnalyzeOriginal
    \/ AnalyzeTest
    \/ ValidateCheck
    \/ RunDifferentialStart
    \/ NextFunction
    \/ LoadModules
    \/ NextCase
    \/ ExecArm
    \/ CalleeReturns
    \/ CalleeRaises
    \/ CalleeLoops
    \/ CalleeIterates
    \/ CalleeSetsAlarm
    \/ AlarmFires
    \/ ExecCancel
    \/ ExecExcept
    \/ ExecFinally
    \/ ValidateScore
    \/ MainOutput

Spec == Init /\ [][Next]_vars

\* the interpreter keeps executing the thread, and a timer that stays armed
\* fires
FairSpec == Spec /\ WF_vars(Next) /\ WF_vars(AlarmFires)

(***************************************************************************)
(* Properties of the run                                                   *)
(***************************************************************************)
\* every verdict of the run: collected for the current function, collected
\* for earlier functions, or stored on the tester
Verdicts == Range(results) \cup Range(all_results) \cup Range(test_results)

Analysed == original_analysis # NoAnalysis /\ test_analysis # NoAnalysis

\* C1: validate() decides on score >= 85, the score being
\* 0.7 * structural + 0.3 * pass rate when differential mode is on and at
\* least one verdict exists, and the structural score alone otherwise.
C1_VerdictIsThresholdOnBlend ==
    (validated /\ Analysed) =>
        LET structural == calculate_compatibility_score(original_analysis,
                                                        test_analysis)
            total == Len(test_results)
            passed == Cardinality({i \in 1..total : test_results[i].passed})
        IN IF run_differential /\ total > 0
              THEN is_interchangeable <=>
                     (7 * structural.num * total + 3 * (100 * passed) * structural.den
                        >= 85 * 10 * structural.den * total)
              ELSE is_interchangeable <=> (structural.num >= 85 * structural.den)

\* a differential run without any verdict was decided on the structural
\* score alone (100, so interchangeable)
C1_Witness ==
    /\ validated /\ Analysed
    /\ run_differential
    /\ test_results = <<>>
    /\ is_interchangeable

\* a differential run whose verdicts turned a structural 100 into a
\* rejection
C1_WitnessBlend ==
    /\ validated /\ Analysed
    /\ run_differential
    /\ test_results # <<>>
    /\ GE(calculate_compatibility_score(original_analysis, test_analysis), Threshold)
    /\ ~is_interchangeable

\* C2: the process exits with 0 iff validate() returned true, and with 1
\* otherwise.
C2_ExitCodeZeroIffInterchangeable ==
    pc = "exited" =>
        /\ exitCode = 0 <=> (validated /\ is_interchangeable)
        /\ exitCode \in {0, 1}

\* C6: a case in which both calls errored passes iff the two error kinds
\* are equal.
C6_BothErroredPassIffSameKind ==
    \A r \in Verdicts :
        (r.orig_error # None /\ r.test_error # None) =>
            (r.passed <=> r.orig_error = r.test_error)

\* C7: a case in which exactly one call errored is failed, its reason names
\* both outcomes, and with it on the tester the pass rate is below 100.
C7_OneSideErroredFails ==
    /\ \A r \in Verdicts :
          ((r.orig_error = None) # (r.test_error = None)) =>
              /\ ~r.passed
              /\ r.error_msg = <<"Original", r.orig_error, "Test", r.test_error>>
    /\ (\E r \in Range(test_results) : (r.orig_error = None) # (r.test_error = None))
          => Passed(test_results) < Len(test_results)

\* validate() decided on a run in which the candidate timed out where the
\* original returned a value
C7_Witness ==
    /\ validated
    /\ \E r \in Range(test_results) :
          /\ r.orig_error = None
          /\ r.original_result \in RetVals
          /\ r.test_error = Timeout

\* C8: no error leaves run_differential_tests.
C8_NothingEscapesRunDifferentialTests ==
    uncaught.from # "run_differential_tests"

\* C9: outside execute_function_safely no alarm is pending.
C9_NoAlarmAfterReturn ==
    alarm => pc \in Executing

\* both calls of a case are over, the second one having ended in the except
\* branch after the callee raised, and the verdict is recorded
C9_Witness ==
    /\ pc = "next_case"
    /\ results # <<>>
    /\ results[Len(results)].test_error \in CalleeErrors
    /\ ~alarm

\* C10: every call of execute_function_safely returns.
C10_ExecutionReturns ==
    (pc = "call") ~> (pc \notin Executing)

\* the run printed a number in score-only mode and exited by sys.exit
ScoreEmitted ==
    /\ pc = "exited"
    /\ score_only
    /\ validated
    /\ Analysed
    /\ uncaught = NoUncaught

\* C16: in score-only mode the printed number is the score the verdict was
\* decided on (the blend when differential mode produced a verdict, the
\* structural score otherwise), so it is >= 85 exactly when the exit code
\* is 0.
C16_ScoreOnlyEmitsDecidingScore ==
    ScoreEmitted =>
        /\ emitted.num * score.den = score.num * emitted.den
        /\ GE(emitted, Threshold) <=> exitCode = 0

\* C20: every case create_test_inputs gives for a function of n positional
\* parameters has exactly n positional entries and no keyword arguments.
C20_CasesHaveArityEntries ==
    (pc = "next_case" /\ Analysed /\ func_name \in DOMAIN original_analysis.functions) =>
        \A i \in DOMAIN cases :
            /\ Len(cases[i].args) = Len(original_analysis.functions[func_name].args)
            /\ cases[i].kwargs = NoKwargs

\* C21: once a sandbox load of a file has failed, no later step of the run
\* loads that file in the sandbox again.
C21_FailedLoadNotRepeated ==
    \A i, j \in DOMAIN load_log :
        (i < j /\ load_log[i].file = load_log[j].file) => load_log[i].loaded

\* C22: for a callee that raises only ordinary errors execute_function_safely
\* always returns a triple: whenever the alarm fires between being armed and
\* being disarmed, the executor reaches its end with a return value and never
\* with a TimeoutError on its way to the caller.
C22_ExecutorAlwaysReturnsTriple ==
    (pc = "finally" /\ flight.error # "SystemExit") => flight.kind = "return"

\* a list without a repeated entry
NoDuplicate(list) == Cardinality(Range(list)) = Len(list)

\* the three lists split the names of the original: every name of the original
\* is in exactly one of them and they hold nothing else
SplitsOriginal(orig, compatible, incompatible, missing) ==
    /\ Range(compatible) \cup Range(incompatible) \cup Range(missing) = DOMAIN orig
    /\ Range(compatible) \cap Range(incompatible) = {}
    /\ Range(compatible) \cap Range(missing) = {}
    /\ Range(incompatible) \cap Range(missing) = {}

\* one comparator result is a partition of the original's names, its extra
\* names are absent from the original and no list repeats a name
IsPartition(orig, compatible, incompatible, missing, extra) ==
    /\ SplitsOriginal(orig, compatible, incompatible, missing)
    /\ Range(extra) \cap DOMAIN orig = {}
    /\ NoDuplicate(compatible)
    /\ NoDuplicate(incompatible)
    /\ NoDuplicate(missing)
    /\ NoDuplicate(extra)

\* the names of the entries of different_variables, in order
DifferentNames(different_variables) ==
    [i \in DOMAIN different_variables |-> different_variables[i].name]

\* C23: for every pair of fingerprints and each of functions, classes and
\* variables the comparator's result is a partition: every name of the
\* original is in exactly one of compatible, incompatible (different for
\* variables) or missing, every extra name is absent from the original, no
\* name appears twice in a list, and a difference-detail entry exists for
\* exactly the incompatible names.
C23_ComparatorResultIsPartition ==
    Compared =>
        /\ IsPartition(cmpOrig.functions,
                       cmpReport.sig.compatible_functions,
                       cmpReport.sig.incompatible_functions,
                       cmpReport.sig.missing_functions,
                       cmpReport.sig.extra_functions)
        /\ DOMAIN cmpReport.sig.signature_differences
              = Range(cmpReport.sig.incompatible_functions)
        /\ \A n \in DOMAIN cmpReport.sig.signature_differences :
              cmpReport.sig.signature_differences[n] # <<>>
        /\ IsPartition(cmpOrig.classes,
                       cmpReport.cls.compatible_classes,
                       cmpReport.cls.incompatible_classes,
                       cmpReport.cls.missing_classes,
                       cmpReport.cls.extra_classes)
        /\ DOMAIN cmpReport.cls.class_differences
              = Range(cmpReport.cls.incompatible_classes)
        /\ \A n \in DOMAIN cmpReport.cls.class_differences :
              cmpReport.cls.class_differences[n] # {}
        /\ IsPartition(cmpOrig.variables,
                       cmpReport.var.compatible_variables,
                       DifferentNames(cmpReport.var.different_variables),
                       cmpReport.var.missing_variables,
                       cmpReport.var.extra_variables)

\* a comparison in which every part of the partition occurs: an incompatible
\* function with its difference entry, an extra function next to it, a missing
\* class and a compatible variable
C23_Witness ==
    /\ Compared
    /\ cmpReport.sig.incompatible_functions # <<>>
    /\ cmpReport.sig.extra_functions # <<>>
    /\ cmpReport.sig.signature_differences # <<>>
    /\ cmpReport.cls.missing_classes # <<>>
    /\ cmpReport.var.compatible_variables # <<>>

\* a comparison with a compatible, a missing function and a different variable
C23_WitnessDifferent ==
    /\ Compared
    /\ cmpReport.sig.compatible_functions # <<>>
    /\ cmpReport.sig.missing_functions # <<>>
    /\ cmpReport.var.different_variables # <<>>
    /\ cmpReport.cls.incompatible_classes # <<>>

====
